---- MODULE Spec2Model ----
(***************************************************************************)
(* Model of services/h2o_ingestor/ingest.py: the staged ingestion          *)
(* pipeline (main), the two cleaning engines, the Weaviate readiness gate, *)
(* the schema ensurer, the document sink and the Postgres sink.            *)
(*                                                                         *)
(* Every call to an external collaborator (requests, pandas I/O, h2o,      *)
(* weaviate, sqlalchemy) either returns or raises an Exception; which one  *)
(* is a nondeterministic input of the action that makes the call.          *)
(***************************************************************************)
EXTENDS Integers, Sequences, FiniteSets, TLC

VARIABLES
    SKIP_H2O,        \* ingest.py:51
    SKIP_WEAVIATE,   \* ingest.py:52
    SKIP_POSTGRES,   \* ingest.py:53
    pc,              \* position of the single thread of control
    df_raw,          \* main's df_raw
    df_processed,    \* main's df_processed
    rawFile,         \* contents of RAW_PATH (the table the CSV holds)
    processedFile,   \* contents of PROCESSED_PATH
    events,          \* stage starts and ends, in order
    outcome,         \* "running", "success" (main returned), "failure" (main raised)
    exitExc,         \* the exception main raised, or "none"
    h2oArg,          \* frame passed to process_with_h2o
    h2oInits,        \* number of h2o.init() calls that returned
    h2oShutdowns,    \* number of h2o.shutdown() calls attempted
    h2oBody,         \* how the try body of process_with_h2o ended
    h2oReturn,       \* the frame the try body of process_with_h2o returned
    h2oShutdownExc,  \* the exception h2o.shutdown() raised, or "none"
    h2oOutcome,      \* what the caller of process_with_h2o observed
    pandasCalls,     \* frames passed to process_with_pandas, in order
    pandasReturn,    \* what process_with_pandas returned
    pandasOutcome,   \* what the caller of process_with_pandas observed
    weaviateArg,     \* frame passed to ingest_into_weaviate
    now,             \* time.time()
    start,           \* wait_for_weaviate's start
    clientsOpened,   \* number of clients _connect_weaviate_v4 returned
    client,          \* the current client (its number), 0 when none
    closeAttempted,  \* clients on which close() was called
    gateOutcome,     \* what the caller of wait_for_weaviate observed
    gateLog,         \* last warning wait_for_weaviate logged
    sinkBody,        \* how the try body of ingest_into_weaviate ended
    sinkCloseExc,    \* the exception client.close() raised, or "none"
    sinkOutcome,     \* what the caller of ingest_into_weaviate observed
    store,           \* document store: collection name -> number of collections of that name
    inserted,        \* number of objects bulk-inserted, -1 when none
    postgresArg,     \* frame passed to load_into_postgres
    pgOutcome,       \* what the caller of load_into_postgres observed
    warehouse,       \* contents of table DATASET_NAME
    cleanIn,         \* cleaning specification: the input frame
    cleanOut,        \* cleaning specification: the returned frame
    cleanEngine,     \* cleaning specification: which engine ran
    ensureLog        \* schema specification: one record per ensure_weaviate_schema call

cfgVars == <<SKIP_H2O, SKIP_WEAVIATE, SKIP_POSTGRES>>
mainVars == <<pc, df_raw, df_processed, rawFile, processedFile, events, outcome, exitExc>>
h2oVars == <<h2oArg, h2oInits, h2oShutdowns, h2oBody, h2oReturn, h2oShutdownExc,
            h2oOutcome>>
pandasVars == <<pandasCalls, pandasReturn, pandasOutcome>>
gateVars == <<now, start, clientsOpened, client, gateOutcome, gateLog>>
sinkVars == <<weaviateArg, closeAttempted, sinkBody, sinkCloseExc, sinkOutcome, inserted>>
pgVars == <<postgresArg, pgOutcome, warehouse>>
cleanVars == <<cleanIn, cleanOut, cleanEngine>>
vars == <<cfgVars, mainVars, h2oVars, pandasVars, gateVars, sinkVars, pgVars,
          store, cleanVars, ensureLog>>

(***************************************************************************)
(* Frames.  A frame is a record [columns, rows]: columns is a sequence of  *)
(* names, rows a sequence of tuples of cells aligned with it.  A name may  *)
(* label several columns.                                                  *)
(***************************************************************************)
NaN == "NaN"
NoFrame == [columns |-> <<"<none>">>, rows |-> <<>>]

SELECT_COLS == <<"location", "city", "country", "parameter", "value", "unit">>

InSelectCols(c) == \E i \in 1..Len(SELECT_COLS) : SELECT_COLS[i] = c

HasColumn(df, c) == \E i \in 1..Len(df.columns) : df.columns[i] = c

ColumnIndex(df, c) == CHOOSE i \in 1..Len(df.columns) : df.columns[i] = c

\* the positions of the columns labelled c, in column order
Positions(df, c) ==
    LET Labelled(i) == df.columns[i] = c
    IN  SelectSeq([i \in 1..Len(df.columns) |-> i], Labelled)

\* the column positions df[cols] takes: for each label in turn, every column
\* that carries it
RECURSIVE Indexer(_, _)
Indexer(df, cols) ==
    IF cols = <<>> THEN <<>>
    ELSE Positions(df, Head(cols)) \o Indexer(df, Tail(cols))

\* [c for c in df.columns if c in SELECT_COLS]
cols_to_keep_by_allow_list(df) ==
    LET InFrame(c) == HasColumn(df, c) IN SelectSeq(SELECT_COLS, InFrame)

cols_to_keep(df) == SelectSeq(df.columns, InSelectCols)

\* df[cols]
Project(df, cols) ==
    LET ix == Indexer(df, cols)
    IN  [columns |-> [j \in 1..Len(ix) |-> df.columns[ix[j]]],
         rows |-> [r \in 1..Len(df.rows) |->
                     [j \in 1..Len(ix) |-> df.rows[r][ix[j]]]]]

notna(v) == v # NaN

\* what a cleaning call yields: the frame it computed, or the exception the
\* computation raised
Computed(df) == [exc |-> "none", df |-> df]
Failed(exc) == [exc |-> exc, df |-> NoFrame]

\* df[mask] with mask a column: the rows whose "value" is not null
DropNullValue(df) ==
    LET i == ColumnIndex(df, "value")
        Keep(row) == notna(row[i])
    IN  [columns |-> df.columns, rows |-> SelectSeq(df.rows, Keep)]

\* df[mask] with mask a frame over the same columns, which is df.where(mask):
\* every row stays, and a cell whose mask is false becomes null
MaskNullCells(df) ==
    [columns |-> df.columns,
     rows |-> [r \in 1..Len(df.rows) |->
                 [j \in 1..Len(df.columns) |->
                     IF notna(df.rows[r][j]) THEN df.rows[r][j] ELSE NaN]]]

\* df[df["value"].notna()].  df["value"] is a column when one column carries
\* the label and a frame of all the columns that carry it otherwise; a mask
\* frame whose columns are not those of df cannot be aligned with df, its
\* labels repeating, and the selection raises.
SelectNotNull(df) ==
    LET labelled == Positions(df, "value")
    IN  IF Len(labelled) = 1 THEN Computed(DropNullValue(df))
        ELSE IF Len(labelled) = Len(df.columns) THEN Computed(MaskNullCells(df))
        ELSE Failed("ValueError")

CleanWith(df, kept) ==
    LET projected == IF kept # <<>> THEN Project(df, kept) ELSE df
    IN  IF HasColumn(projected, "value") THEN SelectNotNull(projected)
        ELSE Computed(projected)

process_with_pandas_allow_list_order(df_in) == CleanWith(df_in, cols_to_keep_by_allow_list(df_in))

process_with_pandas(df_in) == CleanWith(df_in, cols_to_keep(df_in))

(***************************************************************************)
(* The H2O path.  H2OFrame(df_raw) hands the data to the h2o library,      *)
(* which parses it anew; hf.as_data_frame() hands the cleaned cells back.  *)
(* The library is not part of this program: what is modelled of it is that *)
(* any cell may come out missing.  H2OFrame(df) is the set of frames the   *)
(* conversion may yield, and the try body of process_with_h2o returns any  *)
(* frame of process_with_h2o_body; it may also raise (H2OBodyResults).     *)
(***************************************************************************)
H2OFrame(df) ==
    {[columns |-> df.columns,
      rows |-> [r \in 1..Len(df.rows) |->
                  [j \in 1..Len(df.columns) |->
                      IF j \in lost[r] THEN NaN ELSE df.rows[r][j]]]] :
        lost \in [1..Len(df.rows) -> SUBSET (1..Len(df.columns))]}

process_with_h2o_body(df_in) ==
    {CleanWith(hf, cols_to_keep(hf)).df :
        hf \in {h \in H2OFrame(df_in) : CleanWith(h, cols_to_keep(h)).exc = "none"}}

(***************************************************************************)
(* The frames the data source may serve in the pipeline specification:     *)
(* the frame of tests/test_ingest.py, a frame with no allow-listed column, *)
(* and a frame with allow-listed columns but no "value".                   *)
(***************************************************************************)
TestFrame ==
    [columns |-> <<"location", "parameter", "value", "extra_col">>,
     rows |-> << <<"loc1", "pm25", "10.0", "1">>,
                 <<"loc2", "pm10", NaN, "2">>,
                 <<NaN, "pm25", "5.0", "3">> >>]

SampleFrames ==
    { TestFrame,
      [columns |-> <<"extra_col">>, rows |-> << <<"1">>, <<NaN>> >>],
      [columns |-> <<"unit", "extra_col", "city">>, rows |-> << <<"ug", "1", NaN>> >>] }

(***************************************************************************)
(* main(): which stage's exception it catches, and where it goes next.     *)
(***************************************************************************)
StageOrder == <<"fetch", "load", "process", "documents", "warehouse">>

MainCatchesFetch(stage) == stage \in {"fetch", "h2o", "documents"}

MainCatchesNoH2O(stage) == stage \in {"documents"}

MainCatchesNoDocuments(stage) == stage \in {"h2o"}

MainCatchesWarehouse(stage) == stage \in {"h2o", "documents", "warehouse"}

\* the try/except blocks of main: lines 343-347 and 353-360
MainCatches(stage) == stage \in {"h2o", "documents"}

PgEntry == IF SKIP_POSTGRES THEN "completed" ELSE "postgres"

DocEntry == IF SKIP_WEAVIATE THEN PgEntry ELSE "weaviate"

MainNext(stage) ==
    CASE stage = "fetch" -> "load"
      [] stage = "load" -> IF SKIP_H2O THEN "pandas" ELSE "h2o_init"
      [] stage = "h2o" -> DocEntry
      [] stage = "pandas" -> DocEntry
      [] stage = "documents" -> PgEntry
      [] stage = "warehouse" -> "completed"

MainRecover(stage) == IF stage = "h2o" THEN "pandas" ELSE MainNext(stage)

OutcomeOf(p) ==
    CASE p = "completed" -> "success"
      [] p = "failed" -> "failure"
      [] OTHER -> "running"

MainReturn(stage) ==
    /\ pc' = MainNext(stage)
    /\ outcome' = OutcomeOf(MainNext(stage))
    /\ UNCHANGED exitExc

MainRaise(stage, e) ==
    IF MainCatches(stage)
    THEN /\ pc' = MainRecover(stage)
         /\ outcome' = OutcomeOf(MainRecover(stage))
         /\ UNCHANGED exitExc
    ELSE /\ pc' = "failed"
         /\ outcome' = "failure"
         /\ exitExc' = e

Started(stage) == <<"start", stage, "-">>
Ended(stage, result) == <<"end", stage, result>>
InEvents(e) == \E i \in 1..Len(events) : events[i] = e

(***************************************************************************)
(* Fetch and load.                                                         *)
(***************************************************************************)
download_data ==
    /\ pc = "download"
    /\ \E blob \in SampleFrames, ok \in BOOLEAN :
         IF ok
         THEN /\ rawFile' = blob
              /\ events' = events \o <<Started("fetch"), Ended("fetch", "returned")>>
              /\ MainReturn("fetch")
         ELSE /\ UNCHANGED rawFile
              /\ events' = events \o <<Started("fetch"), Ended("fetch", "HTTPError")>>
              /\ MainRaise("fetch", "HTTPError")
    /\ UNCHANGED <<cfgVars, df_raw, df_processed, processedFile, h2oVars, pandasVars,
                   gateVars, sinkVars, pgVars, store, cleanVars, ensureLog>>

load_raw_dataframe ==
    /\ pc = "load"
    /\ \E ok \in BOOLEAN :
         IF ok
         THEN /\ df_raw' = rawFile
              /\ events' = events \o <<Started("load"), Ended("load", "returned")>>
              /\ MainReturn("load")
         ELSE /\ UNCHANGED df_raw
              /\ events' = events \o <<Started("load"), Ended("load", "ParserError")>>
              /\ MainRaise("load", "ParserError")
    /\ UNCHANGED <<cfgVars, df_processed, rawFile, processedFile, h2oVars, pandasVars,
                   gateVars, sinkVars, pgVars, store, cleanVars, ensureLog>>

(***************************************************************************)
(* process_with_h2o: h2o.init(), the try body, the finally block.          *)
(***************************************************************************)
H2OBodyResults == {"ok", "ConvertError", "CleanError", "PersistError"}

process_with_h2o_init ==
    /\ pc = "h2o_init"
    /\ h2oArg' = df_raw
    /\ \E ok \in BOOLEAN :
         IF ok
         THEN /\ h2oInits' = h2oInits + 1
              /\ pc' = "h2o_body"
              /\ events' = Append(events, Started("process"))
              /\ UNCHANGED <<h2oOutcome, outcome, exitExc>>
         ELSE /\ h2oOutcome' = "H2OInitError"
              /\ events' = IF MainCatches("h2o")
                            THEN Append(events, Started("process"))
                            ELSE events \o <<Started("process"),
                                             Ended("process", "H2OInitError")>>
              /\ MainRaise("h2o", "H2OInitError")
              /\ UNCHANGED h2oInits
    /\ UNCHANGED <<cfgVars, df_raw, df_processed, rawFile, processedFile, h2oShutdowns,
                   h2oBody, h2oReturn, h2oShutdownExc, pandasVars, gateVars, sinkVars, pgVars, store, cleanVars,
                   ensureLog>>

process_with_h2o_try ==
    /\ pc = "h2o_body"
    /\ \E r \in H2OBodyResults :
         /\ h2oBody' = r
         /\ IF r = "ok"
            THEN \E df \in process_with_h2o_body(h2oArg) :
                     h2oReturn' = df /\ processedFile' = df
            ELSE UNCHANGED <<h2oReturn, processedFile>>
    /\ pc' = "h2o_shutdown"
    /\ UNCHANGED <<cfgVars, df_raw, df_processed, rawFile, events, outcome, exitExc,
                   h2oArg, h2oInits, h2oShutdowns, h2oShutdownExc, h2oOutcome, pandasVars,
                   gateVars,
                   sinkVars, pgVars, store, cleanVars, ensureLog>>

H2OExitReraisesShutdown(body, shutdownExc) ==
    IF shutdownExc # "none" THEN shutdownExc
    ELSE IF body = "ok" THEN "returned" ELSE body

\* what leaves the try/finally of lines 137-172: the shutdown error is swallowed
H2OExit(body, shutdownExc) == IF body = "ok" THEN "returned" ELSE body

process_with_h2o_finally ==
    /\ pc = "h2o_shutdown"
    /\ h2oShutdowns' = h2oShutdowns + 1
    /\ \E shutdownExc \in {"none", "H2OShutdownError"} :
         LET seen == H2OExit(h2oBody, shutdownExc) IN
         /\ h2oShutdownExc' = shutdownExc
         /\ h2oOutcome' = seen
         /\ IF seen = "returned"
            THEN /\ df_processed' = h2oReturn
                 /\ events' = Append(events, Ended("process", "returned"))
                 /\ MainReturn("h2o")
            ELSE /\ UNCHANGED df_processed
                 /\ events' = IF MainCatches("h2o") THEN events
                              ELSE Append(events, Ended("process", seen))
                 /\ MainRaise("h2o", seen)
    /\ UNCHANGED <<cfgVars, df_raw, rawFile, processedFile, h2oArg, h2oInits, h2oBody,
                   h2oReturn, pandasVars, gateVars, sinkVars, pgVars, store, cleanVars,
                   ensureLog>>

(***************************************************************************)
(* process_with_pandas, as the primary engine (SKIP_H2O) or the fallback.  *)
(***************************************************************************)
\* what the caller of process_with_pandas observes: the exception of the
\* cleaning, else that of the save (mkdir, to_csv), else the return
PandasResult(cleaned, saved) ==
    IF cleaned.exc # "none" THEN cleaned.exc
    ELSE IF saved THEN "returned" ELSE "PersistError"

process_with_pandas_call ==
    /\ pc = "pandas"
    /\ pandasCalls' = Append(pandasCalls, df_raw)
    /\ \E saved \in BOOLEAN :
         LET cleaned == process_with_pandas(df_raw)
             result == PandasResult(cleaned, saved) IN
         /\ pandasOutcome' = result
         /\ events' = (IF InEvents(Started("process")) THEN events
                       ELSE Append(events, Started("process")))
                      \o <<Ended("process", result)>>
         /\ IF result = "returned"
            THEN /\ pandasReturn' = cleaned.df
                 /\ df_processed' = cleaned.df
                 /\ processedFile' = cleaned.df
                 /\ MainReturn("pandas")
            ELSE /\ UNCHANGED <<pandasReturn, df_processed, processedFile>>
                 /\ MainRaise("pandas", result)
    /\ UNCHANGED <<cfgVars, df_raw, rawFile, h2oVars, gateVars, sinkVars, pgVars, store,
                   cleanVars, ensureLog>>

(***************************************************************************)
(* The document store, as the calls of ensure_weaviate_schema see it.      *)
(***************************************************************************)
WEAVIATE_CLASS == "Measurement"

CollectionNames == {WEAVIATE_CLASS, "Other", "Another"}

list_all(st) == {n \in DOMAIN st : st[n] > 0}

create(st, name) == [st EXCEPT ![name] = @ + 1]

StoreFaults == {"none", "list", "create"}

ensure_weaviate_schema_always_create(st, fault, landed) ==
    IF fault = "list"
    THEN [store |-> st, creates |-> 0, raised |-> TRUE]
    ELSE IF fault = "create"
    THEN [store |-> IF landed THEN create(st, WEAVIATE_CLASS) ELSE st,
          creates |-> 1, raised |-> TRUE]
    ELSE [store |-> create(st, WEAVIATE_CLASS), creates |-> 1, raised |-> FALSE]

\* fault: which store call fails in transport; landed: whether a create whose
\* call failed took effect in the store all the same
ensure_weaviate_schema(st, fault, landed) ==
    IF fault = "list"
    THEN [store |-> st, creates |-> 0, raised |-> TRUE]
    ELSE IF WEAVIATE_CLASS \in list_all(st)
    THEN [store |-> st, creates |-> 0, raised |-> FALSE]
    ELSE IF fault = "create"
    THEN [store |-> IF landed THEN create(st, WEAVIATE_CLASS) ELSE st,
          creates |-> 1, raised |-> TRUE]
    ELSE [store |-> create(st, WEAVIATE_CLASS), creates |-> 1, raised |-> FALSE]

(***************************************************************************)
(* wait_for_weaviate, entered from ingest_into_weaviate.                   *)
(***************************************************************************)
timeout == 120
interval == 5
SlowCall == 60
CallDurations == {0, SlowCall}

PollExceptions == {"InsufficientPermissionsError", "UnexpectedStatusCodeException",
                   "WeaviateBaseError", "Exception"}

\* ingest_into_weaviate leaves with `seen`: main's try/except takes over
SinkLeave(seen) ==
    /\ sinkOutcome' = seen
    /\ events' = Append(events, Ended("documents", seen))
    /\ IF seen = "returned" THEN MainReturn("documents") ELSE MainRaise("documents", seen)

ingest_into_weaviate_enter ==
    /\ pc = "weaviate"
    /\ weaviateArg' = df_processed
    /\ start' = now
    /\ events' = Append(events, Started("documents"))
    /\ pc' = "gate_connect"
    /\ UNCHANGED <<cfgVars, df_raw, df_processed, rawFile, processedFile, outcome, exitExc,
                   h2oVars, pandasVars, now, clientsOpened, client, gateOutcome, gateLog,
                   closeAttempted, sinkBody, sinkCloseExc, sinkOutcome, inserted, pgVars,
                   store, cleanVars, ensureLog>>

\* line 73: client = _connect_weaviate_v4(), outside the try of lines 74-90
wait_for_weaviate_connect ==
    /\ pc = "gate_connect"
    /\ \E ok \in BOOLEAN, d \in CallDurations :
         /\ now' = now + d
         /\ IF ok
            THEN /\ clientsOpened' = clientsOpened + 1
                 /\ client' = clientsOpened + 1
                 /\ pc' = "gate_list"
                 /\ UNCHANGED <<gateOutcome, sinkOutcome, events, outcome, exitExc>>
            ELSE /\ gateOutcome' = "WeaviateConnectionError"
                 /\ SinkLeave("WeaviateConnectionError")
                 /\ UNCHANGED <<clientsOpened, client>>
    /\ UNCHANGED <<cfgVars, df_raw, df_processed, rawFile, processedFile, h2oVars,
                   pandasVars, start, gateLog, weaviateArg, closeAttempted, sinkBody,
                   sinkCloseExc, inserted, pgVars, store, cleanVars, ensureLog>>

\* lines 74-96: list_all, the except clauses, the timeout test, the sleep
wait_for_weaviate_poll ==
    /\ pc = "gate_list"
    /\ \E r \in {"ok"} \cup PollExceptions, d \in CallDurations :
         IF r = "ok"
         THEN /\ now' = now + d
              /\ gateOutcome' = "returned"
              /\ pc' = "ensure"
              /\ UNCHANGED <<gateLog, sinkOutcome, events, outcome, exitExc>>
         ELSE /\ gateLog' = r
              /\ IF (now + d) - start > timeout
                 THEN /\ now' = now + d
                      /\ gateOutcome' = "Timeout"
                      /\ SinkLeave("Timeout")
                 ELSE /\ now' = now + d + interval
                      /\ pc' = "gate_connect"
                      /\ UNCHANGED <<gateOutcome, sinkOutcome, events, outcome, exitExc>>
    /\ UNCHANGED <<cfgVars, df_raw, df_processed, rawFile, processedFile, h2oVars,
                   pandasVars, start, clientsOpened, client, weaviateArg, closeAttempted,
                   sinkBody, sinkCloseExc, inserted, pgVars, store, cleanVars, ensureLog>>

(***************************************************************************)
(* ingest_into_weaviate: the try body (ensure, insert) and the finally.    *)
(***************************************************************************)
ingest_into_weaviate_ensure ==
    /\ pc = "ensure"
    /\ \E fault \in StoreFaults, landed \in BOOLEAN :
         LET r == ensure_weaviate_schema(store, fault, landed) IN
         /\ store' = r.store
         /\ IF r.raised
            THEN sinkBody' = "SchemaError" /\ pc' = "close"
            ELSE UNCHANGED sinkBody /\ pc' = "insert"
    /\ UNCHANGED <<cfgVars, df_raw, df_processed, rawFile, processedFile, events, outcome,
                   exitExc, h2oVars, pandasVars, gateVars, weaviateArg, closeAttempted,
                   sinkCloseExc, sinkOutcome, inserted, pgVars, cleanVars, ensureLog>>

ingest_into_weaviate_insert ==
    /\ pc = "insert"
    /\ \E ok \in BOOLEAN :
         IF ok
         THEN sinkBody' = "ok" /\ inserted' = Len(weaviateArg.rows)
         ELSE sinkBody' = "InsertError" /\ UNCHANGED inserted
    /\ pc' = "close"
    /\ UNCHANGED <<cfgVars, df_raw, df_processed, rawFile, processedFile, events, outcome,
                   exitExc, h2oVars, pandasVars, gateVars, weaviateArg, closeAttempted,
                   sinkCloseExc, sinkOutcome, pgVars, store, cleanVars, ensureLog>>

\* what leaves the try/finally of lines 277-309: the close error is swallowed
SinkExit(body, closeExc) == IF body = "ok" THEN "returned" ELSE body

ingest_into_weaviate_finally ==
    /\ pc = "close"
    /\ closeAttempted' = closeAttempted \cup {client}
    /\ \E closeExc \in {"none", "CloseError"} :
         /\ sinkCloseExc' = closeExc
         /\ SinkLeave(SinkExit(sinkBody, closeExc))
    /\ UNCHANGED <<cfgVars, df_raw, df_processed, rawFile, processedFile, h2oVars,
                   pandasVars, gateVars, weaviateArg, sinkBody, inserted, pgVars, store,
                   cleanVars, ensureLog>>

(***************************************************************************)
(* load_into_postgres.                                                     *)
(***************************************************************************)
load_into_postgres ==
    /\ pc = "postgres"
    /\ postgresArg' = df_processed
    /\ \E ok \in BOOLEAN :
         IF ok
         THEN /\ warehouse' = df_processed
              /\ pgOutcome' = "returned"
              /\ events' = events \o <<Started("warehouse"), Ended("warehouse", "returned")>>
              /\ MainReturn("warehouse")
         ELSE /\ UNCHANGED warehouse
              /\ pgOutcome' = "OperationalError"
              /\ events' = events \o <<Started("warehouse"),
                                        Ended("warehouse", "OperationalError")>>
              /\ MainRaise("warehouse", "OperationalError")
    /\ UNCHANGED <<cfgVars, df_raw, df_processed, rawFile, processedFile, h2oVars,
                   pandasVars, gateVars, sinkVars, store, cleanVars, ensureLog>>

(***************************************************************************)
(* The pipeline specification: one run of main().                          *)
(***************************************************************************)
EmptyStore == [n \in CollectionNames |-> 0]

InitRest ==
    /\ df_raw = NoFrame /\ df_processed = NoFrame
    /\ rawFile = NoFrame /\ processedFile = NoFrame
    /\ events = <<>> /\ outcome = "running" /\ exitExc = "none"
    /\ h2oArg = NoFrame /\ h2oInits = 0 /\ h2oShutdowns = 0
    /\ h2oBody = "none" /\ h2oReturn = NoFrame
    /\ h2oShutdownExc = "none" /\ h2oOutcome = "none"
    /\ pandasCalls = <<>> /\ pandasReturn = NoFrame /\ pandasOutcome = "none"
    /\ weaviateArg = NoFrame /\ now = 0 /\ start = 0
    /\ clientsOpened = 0 /\ client = 0 /\ closeAttempted = {}
    /\ gateOutcome = "none" /\ gateLog = "none"
    /\ sinkBody = "none" /\ sinkCloseExc = "none" /\ sinkOutcome = "none"
    /\ inserted = -1
    /\ postgresArg = NoFrame /\ pgOutcome = "none" /\ warehouse = NoFrame

Init ==
    /\ SKIP_H2O \in BOOLEAN /\ SKIP_WEAVIATE \in BOOLEAN /\ SKIP_POSTGRES \in BOOLEAN
    /\ pc = "download"
    /\ InitRest
    /\ store \in {EmptyStore, create(EmptyStore, WEAVIATE_CLASS)}
    /\ cleanIn = NoFrame /\ cleanOut = NoFrame /\ cleanEngine = "none"
    /\ ensureLog = <<>>

Next ==
    \/ download_data
    \/ load_raw_dataframe
    \/ process_with_h2o_init
    \/ process_with_h2o_try
    \/ process_with_h2o_finally
    \/ process_with_pandas_call
    \/ ingest_into_weaviate_enter
    \/ wait_for_weaviate_connect
    \/ wait_for_weaviate_poll
    \/ ingest_into_weaviate_ensure
    \/ ingest_into_weaviate_insert
    \/ ingest_into_weaviate_finally
    \/ load_into_postgres

Spec == Init /\ [][Next]_vars

(***************************************************************************)
(* The cleaning specification: process_with_pandas called, as the test     *)
(* calls it, on every frame of up to MaxCols columns and MaxRows rows.     *)
(* Column labels may repeat, "value" included.                             *)
(***************************************************************************)
MaxCols == 3
MaxRows == 2

ColumnUniverse == {"location", "value", "extra_col"}
CellValues == {NaN, "x"}

ColumnSeqs == UNION {[1..n -> ColumnUniverse] : n \in 0..MaxCols}

FramesOver(c) ==
    {[columns |-> c, rows |-> rs] :
        rs \in UNION {[1..m -> [1..Len(c) -> CellValues]] : m \in 0..MaxRows}}

InitClean ==
    /\ SKIP_H2O = FALSE /\ SKIP_WEAVIATE = FALSE /\ SKIP_POSTGRES = FALSE
    /\ pc = "clean"
    /\ InitRest
    /\ store = EmptyStore
    /\ \E c \in ColumnSeqs : cleanIn \in FramesOver(c)
    /\ cleanOut = NoFrame /\ cleanEngine = "none"
    /\ ensureLog = <<>>

CleanPandas ==
    /\ pc = "clean"
    /\ cleanEngine = "none"
    /\ cleanEngine' = "pandas"
    /\ pandasCalls' = Append(pandasCalls, cleanIn)
    /\ \E saved \in BOOLEAN :
         LET cleaned == process_with_pandas(cleanIn)
             result == PandasResult(cleaned, saved) IN
         /\ pandasOutcome' = result
         /\ IF result = "returned"
            THEN /\ pandasReturn' = cleaned.df
                 /\ cleanOut' = cleaned.df
                 /\ processedFile' = cleaned.df
            ELSE UNCHANGED <<pandasReturn, cleanOut, processedFile>>
    /\ UNCHANGED <<cfgVars, pc, df_raw, df_processed, rawFile, events, outcome, exitExc,
                   h2oVars, gateVars, sinkVars, pgVars, store, cleanIn, ensureLog>>

NextClean == CleanPandas

SpecClean == InitClean /\ [][NextClean]_vars

(***************************************************************************)
(* The schema specification: up to MaxCalls consecutive calls of           *)
(* ensure_weaviate_schema against one store.                               *)
(***************************************************************************)
MaxCalls == 3

InitialStores ==
    {st \in [CollectionNames -> {0, 1}] : TRUE}

InitSchema ==
    /\ SKIP_H2O = FALSE /\ SKIP_WEAVIATE = FALSE /\ SKIP_POSTGRES = FALSE
    /\ pc = "schema"
    /\ InitRest
    /\ store \in InitialStores
    /\ cleanIn = NoFrame /\ cleanOut = NoFrame /\ cleanEngine = "none"
    /\ ensureLog = <<>>

EnsureCall ==
    /\ pc = "schema"
    /\ Len(ensureLog) < MaxCalls
    /\ \E fault \in StoreFaults, landed \in BOOLEAN :
         LET r == ensure_weaviate_schema(store, fault, landed) IN
         /\ store' = r.store
         /\ ensureLog' = Append(ensureLog,
                [before |-> store, after |-> r.store, fault |-> fault,
                 creates |-> r.creates, raised |-> r.raised])
    /\ UNCHANGED <<cfgVars, mainVars, h2oVars, pandasVars, gateVars, sinkVars, pgVars,
                   cleanVars>>

NextSchema == EnsureCall

SpecSchema == InitSchema /\ [][NextSchema]_vars

(***************************************************************************)
(* Properties of the pipeline specification (Spec).                        *)
(***************************************************************************)
Raised(o) == o \notin {"none", "returned"}

\* C1: once ingest_into_weaviate has raised, main goes on to the warehouse
\* stage (or past it under SKIP_POSTGRES); the run cannot end without
\* load_into_postgres having been called with the processed frame unless it is
\* skipped, and it ends in success whenever load_into_postgres did not raise.
C1_DocumentFailureIsolated ==
    Raised(sinkOutcome) =>
        IF SKIP_POSTGRES
        THEN pc = "completed" /\ outcome = "success" /\ pgOutcome = "none"
        ELSE \/ pc = "postgres" /\ outcome = "running" /\ pgOutcome = "none"
             \/ /\ pgOutcome = "returned"
                /\ postgresArg = df_processed
                /\ pc = "completed" /\ outcome = "success" /\ exitExc = "none"
             \/ /\ Raised(pgOutcome)
                /\ postgresArg = df_processed
                /\ outcome = "failure" /\ exitExc = pgOutcome

C1_Witness ==
    /\ sinkOutcome = "Timeout"
    /\ pgOutcome = "returned"
    /\ outcome = "success"

\* C2: once load_into_postgres has raised, the run has failed with that
\* exception and is not in the completed state, whatever the document sink did.
C2_WarehouseFailureFatal ==
    Raised(pgOutcome) =>
        /\ pc = "failed"
        /\ outcome = "failure"
        /\ exitExc = pgOutcome

C2_Witness ==
    /\ pgOutcome = "OperationalError"
    /\ sinkOutcome = "InsertError"
    /\ outcome = "failure"

\* C3: once process_with_h2o has raised, process_with_pandas is called exactly
\* once, with the frame process_with_h2o was given; each sink that starts
\* receives what the fallback returned; if the fallback raised, the run has
\* failed with its exception and no sink has started.
C3_FallbackOnSameFrame ==
    Raised(h2oOutcome) =>
        /\ h2oArg = df_raw
        /\ IF pc = "pandas"
           THEN pandasCalls = <<>>
           ELSE /\ pandasCalls = <<h2oArg>>
                /\ pandasOutcome # "none"
                /\ pandasOutcome = "returned" =>
                     /\ df_processed = pandasReturn
                     /\ InEvents(Started("documents")) => weaviateArg = pandasReturn
                     /\ InEvents(Started("warehouse")) => postgresArg = pandasReturn
                /\ Raised(pandasOutcome) =>
                     /\ outcome = "failure"
                     /\ exitExc = pandasOutcome
                     /\ ~InEvents(Started("documents"))
                     /\ ~InEvents(Started("warehouse"))

C3_Witness ==
    /\ h2oOutcome = "CleanError"
    /\ pandasCalls = <<TestFrame>>
    /\ weaviateArg = pandasReturn
    /\ postgresArg = pandasReturn
    /\ pgOutcome = "returned"

StageIndex(stage) == CHOOSE i \in 1..Len(StageOrder) : StageOrder[i] = stage

ReturnedBefore(stage, i) ==
    \E k \in 1..(i - 1) : events[k] = Ended(stage, "returned")

\* C4: stage starts and ends alternate (a stage starts only when the one
\* before it has ended), starts follow the order fetch, load, process,
\* documents, warehouse with no stage started twice, a stage starts only after
\* fetch, load and process (those before it) have returned, and a fetch or load
\* that raised is the last event of a failed run.
C4_StagesInOrder ==
    \A i \in 1..Len(events) :
        /\ i % 2 = 1 =>
             /\ events[i][1] = "start"
             /\ i < Len(events) =>
                  events[i + 1][1] = "end" /\ events[i + 1][2] = events[i][2]
        /\ i % 2 = 0 => events[i][1] = "end" /\ events[i - 1] = Started(events[i][2])
        /\ events[i][1] = "start" =>
             /\ \A j \in 1..(i - 1) :
                  events[j][1] = "start" =>
                      StageIndex(events[j][2]) < StageIndex(events[i][2])
             /\ \A k \in 1..3 :
                  k < StageIndex(events[i][2]) => ReturnedBefore(StageOrder[k], i)
        /\ (events[i][1] = "end" /\ events[i][2] \in {"fetch", "load"}
                /\ events[i][3] # "returned") =>
             /\ i = Len(events)
             /\ pc = "failed"
             /\ outcome = "failure"
             /\ exitExc = events[i][3]

C4_Witness ==
    /\ Len(events) = 10
    /\ events[1] = Started("fetch")
    /\ events[9] = Started("warehouse")
    /\ outcome = "success"

\* C5: h2o.shutdown is attempted at most once and only after h2o.init
\* returned; when process_with_h2o has left after h2o.init returned, shutdown
\* was attempted exactly once, and the caller saw the exception of the try
\* body if it raised and a normal return otherwise, whether or not shutdown
\* itself raised.
C5_EngineReleasedOnce ==
    /\ h2oInits <= 1
    /\ h2oShutdowns <= h2oInits
    /\ (h2oOutcome # "none" /\ h2oInits = 1) =>
          /\ h2oShutdowns = 1
          /\ h2oBody # "none"
          /\ h2oOutcome = (IF h2oBody = "ok" THEN "returned" ELSE h2oBody)
    /\ (h2oOutcome # "none" /\ h2oInits = 0) =>
          h2oShutdowns = 0 /\ h2oOutcome = "H2OInitError"

C5_Witness ==
    /\ h2oBody = "PersistError"
    /\ h2oShutdownExc = "H2OShutdownError"
    /\ h2oShutdowns = 1
    /\ h2oOutcome = "PersistError"

\* C6: no exception other than the Timeout error leaves wait_for_weaviate:
\* the gate is still polling, has returned a client, or has raised Timeout.
C6_OnlyTimeoutEscapesGate ==
    gateOutcome \in {"none", "returned", "Timeout"}

\* C7: when wait_for_weaviate has ended, it either returned the client of an
\* attempt whose list_all succeeded, or it raised the Timeout error after a
\* failed attempt with more than `timeout` seconds elapsed since its start.
C7_GateEndsReadyOrTimedOut ==
    gateOutcome # "none" =>
        \/ gateOutcome = "returned" /\ client = clientsOpened /\ client > 0
        \/ gateOutcome = "Timeout" /\ gateLog # "none" /\ now - start > timeout

\* C8: when ingest_into_weaviate has left, close() has been attempted on every
\* client it opened, those of failed readiness polls included.
C8_EveryClientClosed ==
    sinkOutcome # "none" => closeAttempted = 1..clientsOpened

(***************************************************************************)
(* Properties of the cleaning specification (SpecClean).                   *)
(***************************************************************************)
AllowList == {"location", "city", "country", "parameter", "value", "unit"}

\* the k-th smallest element of a set of integers
NthOf(S, k) == CHOOSE i \in S : Cardinality({x \in S : x < i}) = k - 1

CleanedFrom(in, out) ==
    LET allowed == {i \in 1..Len(in.columns) : in.columns[i] \in AllowList}
        colIdx == IF allowed = {} THEN 1..Len(in.columns) ELSE allowed
        valueIdx == {i \in colIdx : in.columns[i] = "value"}
        rowIdx == IF valueIdx = {}
                  THEN 1..Len(in.rows)
                  ELSE {r \in 1..Len(in.rows) :
                           \A i \in valueIdx : in.rows[r][i] # NaN}
    IN  /\ Len(out.columns) = Cardinality(colIdx)
        /\ \A j \in 1..Len(out.columns) : out.columns[j] = in.columns[NthOf(colIdx, j)]
        /\ Len(out.rows) = Cardinality(rowIdx)
        /\ \A k \in 1..Len(out.rows) :
             /\ Len(out.rows[k]) = Cardinality(colIdx)
             /\ \A j \in 1..Len(out.columns) :
                  out.rows[k][j] = in.rows[NthOf(rowIdx, k)][NthOf(colIdx, j)]

DistinctColumns(df) ==
    \A i, j \in 1..Len(df.columns) : i # j => df.columns[i] # df.columns[j]

C10_EnsureIdempotent ==
    \A i \in 1..Len(ensureLog) :
        LET c == ensureLog[i] IN
        /\ c.after[WEAVIATE_CLASS] <= 1
        /\ c.creates = 1 => c.before[WEAVIATE_CLASS] = 0
        /\ (c.before[WEAVIATE_CLASS] > 0 /\ c.fault # "list") =>
             c.creates = 0 /\ ~c.raised /\ c.after = c.before
        /\ (c.before[WEAVIATE_CLASS] = 0 /\ c.fault = "none") =>
             c.creates = 1 /\ ~c.raised /\ c.after[WEAVIATE_CLASS] = 1
        /\ (i > 1 /\ ~ensureLog[i - 1].raised /\ c.fault # "list") =>
             c.creates = 0 /\ ~c.raised /\ c.after[WEAVIATE_CLASS] = 1

C10_Witness ==
    /\ Len(ensureLog) = 2
    /\ ensureLog[1].before[WEAVIATE_CLASS] = 0
    /\ ensureLog[1].creates = 1
    /\ ~ensureLog[1].raised
    /\ ensureLog[2].creates = 0
    /\ ~ensureLog[2].raised
    /\ store[WEAVIATE_CLASS] = 1

====
